---- MODULE Spec2Model ----
(***************************************************************************)
(* Model of sous-chef-ai (src/app.py): the quantity parser, the quantity   *)
(* formatter, and the Streamlit script that scales a stored recipe.        *)
(*                                                                         *)
(* Strings are sequences of one-character strings.  Python floats are      *)
(* modelled by exact rationals [num, den] in lowest terms (den > 0); an     *)
(* optional float (a magnitude that may be None) is [some, num, den].      *)
(***************************************************************************)
EXTENDS Integers, Sequences, FiniteSets, TLC

(***************************************************************************)
(* Characters and the str methods the code uses                            *)
(***************************************************************************)
Digits == <<"0", "1", "2", "3", "4", "5", "6", "7", "8", "9">>

UpperCase == <<"A", "B", "C", "D", "E", "F", "G", "H", "I", "J", "K", "L", "M",
               "N", "O", "P", "Q", "R", "S", "T", "U", "V", "W", "X", "Y", "Z">>

LowerCase == <<"a", "b", "c", "d", "e", "f", "g", "h", "i", "j", "k", "l", "m",
               "n", "o", "p", "q", "r", "s", "t", "u", "v", "w", "x", "y", "z">>

\* \d of the regular expression
IsDigit(c) == \E i \in 1..10 : Digits[i] = c

\* \s of the regular expression, and the characters str.strip()/split() drop
IsSpace(c) == c \in {" ", "\t", "\n"}

DigitVal(c) == (CHOOSE i \in 1..10 : Digits[i] = c) - 1

LowerChar(c) ==
  IF \E i \in 1..26 : UpperCase[i] = c
  THEN LowerCase[CHOOSE i \in 1..26 : UpperCase[i] = c]
  ELSE c

\* str.lower()
Lower(s) == [i \in 1..Len(s) |-> LowerChar(s[i])]

\* s[from:] of Python, with from counted from 1
Rest(s, from) == IF from > Len(s) THEN << >> ELSE SubSeq(s, from, Len(s))

RECURSIVE LStrip(_)
LStrip(s) ==
  IF s # << >> /\ IsSpace(Head(s)) THEN LStrip(Tail(s)) ELSE s

RECURSIVE RStrip(_)
RStrip(s) ==
  IF s # << >> /\ IsSpace(s[Len(s)]) THEN RStrip(SubSeq(s, 1, Len(s) - 1)) ELSE s

\* str.strip()
Strip(s) == RStrip(LStrip(s))

\* c in s
Contains(s, c) == \E i \in 1..Len(s) : s[i] = c

\* number of consecutive characters of class digit starting at position p
RECURSIVE DigitRun(_, _)
DigitRun(s, p) ==
  IF p <= Len(s) /\ IsDigit(s[p]) THEN 1 + DigitRun(s, p + 1) ELSE 0

RECURSIVE SpaceRun(_, _)
SpaceRun(s, p) ==
  IF p <= Len(s) /\ IsSpace(s[p]) THEN 1 + SpaceRun(s, p + 1) ELSE 0

\* position of the first c in s, 0 when absent
FirstIndex(s, c) ==
  IF Contains(s, c) THEN CHOOSE i \in 1..Len(s) : s[i] = c /\ \A j \in 1..(i - 1) : s[j] # c
  ELSE 0

AllDigits(s) == s # << >> /\ \A i \in 1..Len(s) : IsDigit(s[i])

RECURSIVE DigitsVal(_)
DigitsVal(s) ==
  IF s = << >> THEN 0 ELSE 10 * DigitsVal(SubSeq(s, 1, Len(s) - 1)) + DigitVal(s[Len(s)])

\* int(s) of Python accepts surrounding whitespace; anything else but a run
\* of digits is a ValueError
IntOk(s) == AllDigits(Strip(s))
IntOf(s) == DigitsVal(Strip(s))

RECURSIVE NatStr(_)
NatStr(n) ==
  IF n < 10 THEN <<Digits[n + 1]>> ELSE NatStr(n \div 10) \o <<Digits[(n % 10) + 1]>>

\* str(n) of a Python int
IntStr(n) == IF n < 0 THEN <<"-">> \o NatStr(-n) ELSE NatStr(n)

(***************************************************************************)
(* Floats as exact rationals                                               *)
(***************************************************************************)
Abs(x) == IF x < 0 THEN -x ELSE x

RECURSIVE Gcd(_, _)
Gcd(a, b) == IF b = 0 THEN a ELSE Gcd(b, a % b)

\* the rational n/d, d # 0, in lowest terms with a positive denominator
Rat(n, d) ==
  LET g == Gcd(Abs(n), Abs(d))
      s == IF d < 0 THEN -1 ELSE 1
  IN [num |-> s * (n \div g), den |-> s * (d \div g)]

RatMul(a, b) == Rat(a.num * b.num, a.den * b.den)
RatAdd(a, b) == Rat(a.num * b.den + b.num * a.den, a.den * b.den)
RatSub(a, b) == Rat(a.num * b.den - b.num * a.den, a.den * b.den)
RatLess(a, b) == a.num * b.den < b.num * a.den
RatAbs(a) == [num |-> Abs(a.num), den |-> a.den]

\* int(x) of a Python float: truncation towards zero
Trunc(a) == IF a.num >= 0 THEN a.num \div a.den ELSE -((-a.num) \div a.den)

None == [some |-> FALSE, num |-> 0, den |-> 1]
Some(a) == [some |-> TRUE, num |-> a.num, den |-> a.den]
ValueOf(m) == [num |-> m.num, den |-> m.den]

(***************************************************************************)
(* parse_quantity                                                          *)
(***************************************************************************)
\* str.split(): the whitespace-separated words of s
RECURSIVE NonSpaceRun(_, _)
NonSpaceRun(s, p) ==
  IF p <= Len(s) /\ ~IsSpace(s[p]) THEN 1 + NonSpaceRun(s, p + 1) ELSE 0

RECURSIVE SplitWs(_)
SplitWs(s) ==
  LET t == LStrip(s)
      k == NonSpaceRun(t, 1)
  IN IF t = << >> THEN << >> ELSE <<SubSeq(t, 1, k)>> \o SplitWs(Rest(t, k + 1))

\* str.split(c)
RECURSIVE SplitChar(_, _)
SplitChar(s, c) ==
  LET i == FirstIndex(s, c)
  IN IF i = 0 THEN <<s>> ELSE <<SubSeq(s, 1, i - 1)>> \o SplitChar(Rest(s, i + 1), c)

\* float(s) on the literals the regular expression can hand it:
\* digits, optionally a point and more digits, at least one digit in all
FloatOk(s) ==
  LET t == Strip(s)
      a == DigitRun(t, 1)
  IN \/ a >= 1 /\ a = Len(t)
     \/ a < Len(t) /\ t[a + 1] = "." /\ a + 1 + DigitRun(t, a + 2) = Len(t) /\ Len(t) >= 2

RECURSIVE Pow10(_)
Pow10(n) == IF n = 0 THEN 1 ELSE 10 * Pow10(n - 1)

FloatOf(s) ==
  LET t == Strip(s)
      a == DigitRun(t, 1)
      f == Len(t) - a - 1
  IN IF a = Len(t) THEN Rat(DigitsVal(t), 1)
     ELSE Rat(DigitsVal(SubSeq(t, 1, a)) * Pow10(f) + DigitsVal(Rest(t, a + 2)), Pow10(f))

\* the position after the run of digits (of blanks) that starts at position p
AfterDigits(s, p) == p + DigitRun(s, p)
AfterSpaces(s, p) == p + SpaceRun(s, p)

\* the character c at position p followed by \d+: the position of the last
\* of these digits, 0 when the text at p is not of this form
CharThenDigits(s, p, c) ==
  IF p <= Len(s) /\ s[p] = c /\ DigitRun(s, p + 1) >= 1 THEN AfterDigits(s, p + 1) - 1 ELSE 0

\* The four alternatives of the pattern, each giving the length of its match
\* at the start of s, 0 when it does not match.  Every quantifier is greedy;
\* each run is followed by a character outside its class, so backtracking
\* never finds a match the greedy runs miss.
\*   \d+\s*\d*/\d+
MatchMixed(s) ==
  IF DigitRun(s, 1) >= 1
  THEN CharThenDigits(s, AfterDigits(s, AfterSpaces(s, AfterDigits(s, 1))), "/")
  ELSE 0

\*   \d*\.\d+
MatchDecimal(s) == CharThenDigits(s, AfterDigits(s, 1), ".")

\*   \d+/\d+
MatchFraction(s) ==
  IF DigitRun(s, 1) >= 1 THEN CharThenDigits(s, AfterDigits(s, 1), "/") ELSE 0

\*   \d+
MatchInteger(s) == DigitRun(s, 1)

\* a | b of the pattern on match lengths: the left alternative if it matches
OrElse(a, b) == IF a > 0 THEN a ELSE b

\* re.match(r'(\d+\s*\d*/\d+|\d*\.\d+|\d+/\d+|\d+)', s): the first
\* alternative that matches decides; 0 is "no match"
ReMatch(s) ==
  OrElse(MatchMixed(s), OrElse(MatchDecimal(s), OrElse(MatchFraction(s), MatchInteger(s))))

Returned(m, u) == [exc |-> "none", magnitude |-> m, unit |-> u]
Raised(e) == [exc |-> e, magnitude |-> None, unit |-> << >>]

\* numerator, denominator = map(int, text.split('/')), then whole + n / d
FractionOf(whole, nd) ==
  IF Len(nd) # 2 \/ ~IntOk(nd[1]) \/ ~IntOk(nd[2]) THEN Raised("ValueError")
  ELSE IF IntOf(nd[2]) = 0 THEN Raised("ZeroDivisionError")
  ELSE Returned(Some(RatAdd(whole, Rat(IntOf(nd[1]), IntOf(nd[2])))), << >>)

FractionValue(whole, text) == FractionOf(whole, SplitChar(text, "/"))

\* a slip the unit's strip() guards against: the text after the number kept
\* with its separating blanks
UnitAfterUnstripped(quantity_str, number_str) ==
  Rest(quantity_str, Len(number_str) + 1)

\* unit_str = quantity_str[len(number_str):].strip()
UnitAfter(quantity_str, number_str) ==
  Strip(Rest(quantity_str, Len(number_str) + 1))

\* lines 55-67: the value of the matched number, parts being
\* number_str.split(); the unit of a returned value is settled at line 69
NumberValue(quantity_str, number_str, parts) ==
  IF Contains(number_str, " ") /\ Contains(number_str, "/")
  THEN IF ~FloatOk(parts[1]) THEN Raised("ValueError")
       ELSE IF Len(parts) < 2 THEN Raised("IndexError")
       ELSE FractionValue(FloatOf(parts[1]), parts[2])
  ELSE IF Contains(number_str, "/")
  THEN FractionValue(Rat(0, 1), number_str)
  ELSE IF FloatOk(number_str) THEN Returned(Some(FloatOf(number_str)), << >>)
  ELSE Returned(None, quantity_str)

\* line 69 (return quantity, unit_str), unless lines 55-67 raised or returned
WithUnit(value, unit_str) ==
  IF value.exc # "none" THEN value
  ELSE IF ~value.magnitude.some THEN value
  ELSE Returned(value.magnitude, unit_str)

\* lines 53-69 on the matched number
ParseNumber(quantity_str, number_str) ==
  WithUnit(NumberValue(quantity_str, number_str, SplitWs(number_str)),
           UnitAfter(quantity_str, number_str))

\* lines 50-71 on the length m of the match
ParseMatch(quantity_str, m) ==
  IF m = 0 THEN Returned(None, quantity_str)
  ELSE ParseNumber(quantity_str, Strip(SubSeq(quantity_str, 1, m)))

\* lines 49-71 on the trimmed, lowercased string
ParseNormalized(quantity_str) == ParseMatch(quantity_str, ReMatch(quantity_str))

parse_quantity(raw) == ParseNormalized(Lower(Strip(raw)))

(***************************************************************************)
(* format_scaled_quantity                                                  *)
(***************************************************************************)
\* a slip: a tolerance of 0.05
NearLoose(decimal, p, q) == RatLess(RatAbs(RatSub(decimal, Rat(p, q))), Rat(1, 20))

\* abs(decimal - p/q) < 0.01
Near(decimal, p, q) == RatLess(RatAbs(RatSub(decimal, Rat(p, q))), Rat(1, 100))

\* f"{number:.2f}": the nearest multiple of 0.01.  A tie goes to the even
\* one, which is what the double does whenever the value is exact in binary
\* (0.125 gives "0.12", 0.375 gives "0.38").
TwoDecimals(number) ==
  LET a == Abs(number.num) * 100
      q == a \div number.den
      r == a % number.den
      h == IF 2 * r > number.den \/ (2 * r = number.den /\ q % 2 = 1) THEN q + 1 ELSE q
      cents == h % 100
  IN (IF number.num < 0 THEN <<"-">> ELSE << >>)
       \o NatStr(h \div 100) \o <<".">> \o <<Digits[(cents \div 10) + 1], Digits[(cents % 10) + 1]>>

\* a slip the "> 0" guards against: a whole part of 0 written out
WholePrefixWithZero(number) ==
  IF Trunc(number) >= 0 THEN IntStr(Trunc(number)) ELSE << >>

\* {int(number) if int(number) > 0 else ''}
WholePrefix(number) ==
  IF Trunc(number) > 0 THEN IntStr(Trunc(number)) ELSE << >>

\* f"{int(number) if int(number) > 0 else ''} <frac>".strip()
WithWhole(number, frac) ==
  Strip(WholePrefix(number) \o <<" ">> \o frac)

format_scaled_quantity(number, unit_str) ==
  IF ~number.some THEN unit_str
  ELSE
    LET x == ValueOf(number)
        decimal == RatSub(x, Rat(Trunc(x), 1))
        formatted_num ==
          IF decimal.num = 0 THEN IntStr(Trunc(x))
          ELSE IF Near(decimal, 1, 2) THEN WithWhole(x, <<"1", "/", "2">>)
          ELSE IF Near(decimal, 1, 4) THEN WithWhole(x, <<"1", "/", "4">>)
          ELSE IF Near(decimal, 3, 4) THEN WithWhole(x, <<"3", "/", "4">>)
          ELSE TwoDecimals(x)
    IN Strip(formatted_num \o <<" ">> \o unit_str)

(***************************************************************************)
(* State                                                                   *)
(***************************************************************************)
VARIABLES
  pq_arg,      \* the argument of a parse_quantity call
  pq_res,      \* what the call gave: [done, exc, magnitude, unit]
  fq_number,   \* the arguments of a format_scaled_quantity call
  fq_unit,
  fq_res,      \* what the call gave: [done, text]
  rt_servings, \* the servings of a scale-and-read-back: [original, new]
  rt_back,     \* the displayed text read back and scaled by 1/f
  session,     \* st.session_state, a record of its keys
  ui           \* what the last run of the script put on the page

fnVars == <<pq_arg, pq_res, fq_number, fq_unit, fq_res, rt_servings, rt_back>>
appVars == <<session, ui>>
vars == <<pq_arg, pq_res, fq_number, fq_unit, fq_res, rt_servings, rt_back, session, ui>>

(***************************************************************************)
(* The Streamlit script: one run from top to bottom                        *)
(***************************************************************************)
NoneStr == "<None>"       \* the value None of temp_query and temp_cuisine
Absent == "<absent>"      \* a session key that has not been set

\* original_recipe_data: None, or the dict of a Recipe
NoRecipe ==
  [present |-> FALSE, name |-> "", servings |-> 0, total_calories_kcal |-> 0,
   ingredients |-> << >>]

NoSuggestions == [suggestions |-> << >>, local_names |-> << >>]

\* the defaults of lines 311-330
SessionDefaults ==
  [original_recipe_data |-> NoRecipe,
   ingredients_input |-> "eggs, flour",
   cuisine_select |-> "Indian",
   serving_slider |-> 2,
   temp_query |-> NoneStr,
   temp_cuisine |-> NoneStr,
   similar_recipes |-> NoSuggestions,
   trigger_suggestion_generation |-> FALSE,
   original_ingredients |-> Absent,
   original_cuisine |-> Absent]

\* a page with nothing of a recipe on it.  asked lists the calls of
\* generate_recipe_from_llm the run made, each with its ingredients and
\* cuisine arguments; event is the widget whose use caused the run
BlankPage ==
  [exc |-> "none", stopped |-> FALSE, recipe_shown |-> FALSE, slider_shown |-> FALSE,
   calories |-> 0, lines |-> << >>, buttons |-> << >>, button_cuisine |-> Absent,
   asked |-> << >>, event |-> "none"]

\* st.stop() at line 413 or 442
StoppedPage == [BlankPage EXCEPT !.stopped = TRUE]

\* a slip: the factor taken against the serving count shown before the
\* change instead of the recipe's own
ScalingFactorSinceLastCount(new_servings, original_servings) ==
  Rat(new_servings, session.serving_slider)

\* scaling_factor = new_servings / original_servings, original_servings # 0
ScalingFactor(new_servings, original_servings) ==
  Rat(new_servings, original_servings)

\* lines 529-533
DisplayQuantity(original_quantity_str, parsed, scaling_factor) ==
  IF parsed.magnitude.some /\ scaling_factor # Rat(1, 1)
  THEN format_scaled_quantity(
         Some(RatMul(ValueOf(parsed.magnitude), scaling_factor)), parsed.unit)
  ELSE original_quantity_str

\* One pass of the loop body, lines 525-535, on top of what the passes after
\* it give: parsed is parse_quantity(item['quantity']) of line 527, rest the
\* lines of the ingredients that follow.  An exception ends the loop and the
\* script; the first ingredient that raises decides which.
LoopPass(ingredient, parsed, scaling_factor, rest) ==
  IF parsed.exc # "none" THEN [exc |-> parsed.exc, lines |-> << >>]
  ELSE IF rest.exc # "none" THEN rest
  ELSE [exc |-> "none",
        lines |-> <<[item |-> ingredient.item,
                     text |-> DisplayQuantity(ingredient.quantity, parsed, scaling_factor)]>>
                  \o rest.lines]

\* the loop of lines 524-535: the lines of ingredient_list_markdown, or the
\* exception that ended the loop
RECURSIVE IngredientLines(_, _)
IngredientLines(ingredients, scaling_factor) ==
  IF ingredients = << >> THEN [exc |-> "none", lines |-> << >>]
  ELSE LoopPass(Head(ingredients), parse_quantity(Head(ingredients).quantity),
                scaling_factor, IngredientLines(Tail(ingredients), scaling_factor))

Min(a, b) == IF a < b THEN a ELSE b

\* lines 445-499: the page down to the slider, with the scaled calories of
\* line 457
UptoSlider(ss) ==
  [BlankPage EXCEPT
     !.recipe_shown = TRUE,
     !.slider_shown = TRUE,
     !.calories = Trunc(RatMul(Rat(ss.original_recipe_data.total_calories_kcal, 1),
                               Rat(ss.original_recipe_data.servings, ss.serving_slider)))]

\* lines 537-584: the ingredient lines and the similar-recipe buttons, unless
\* the loop raised
BelowSlider(ss, page, body) ==
  IF body.exc # "none" THEN [page EXCEPT !.exc = body.exc]
  ELSE [page EXCEPT
          !.lines = body.lines,
          !.buttons = SubSeq(ss.similar_recipes.suggestions, 1,
                             Min(Len(ss.similar_recipes.suggestions),
                                 Len(ss.similar_recipes.local_names))),
          !.button_cuisine = ss.original_cuisine]

\* lines 445-600: the page of the stored recipe
Render(ss) ==
  IF ss.original_recipe_data.servings = 0
  THEN [UptoSlider(ss) EXCEPT !.exc = "ZeroDivisionError"]
  ELSE BelowSlider(ss, UptoSlider(ss),
                   IngredientLines(ss.original_recipe_data.ingredients,
                                   ScalingFactor(ss.serving_slider,
                                                 ss.original_recipe_data.servings)))

\* a slip: the pending query taken without being cleared (lines 341-342 left
\* out)
TakeTempQueryUncleared(ss) ==
  IF ss.temp_query # NoneStr
  THEN [ss EXCEPT !.ingredients_input = ss.temp_query,
                  !.cuisine_select = ss.temp_cuisine,
                  !.trigger_suggestion_generation = TRUE]
  ELSE ss

\* lines 336-344
TakeTempQuery(ss) ==
  IF ss.temp_query # NoneStr
  THEN [ss EXCEPT !.ingredients_input = ss.temp_query,
                  !.cuisine_select = ss.temp_cuisine,
                  !.temp_query = NoneStr,
                  !.temp_cuisine = NoneStr,
                  !.trigger_suggestion_generation = TRUE]
  ELSE ss

\* line 404, on the session TakeTempQuery leaves
TriggerGeneration(ss, generate_button) ==
  generate_button \/ TakeTempQuery(ss).trigger_suggestion_generation

\* a slip: the suggestions of the recipe before kept when
\* generate_similar_recipes returns None (lines 439-440 left out)
StoredKeepingSuggestions(ss, llm, sug) ==
  [ss EXCEPT !.original_recipe_data = llm,
             !.original_ingredients = ss.ingredients_input,
             !.original_cuisine = ss.cuisine_select,
             !.similar_recipes = IF sug.ok THEN sug.data ELSE ss.similar_recipes]

\* lines 422-440: the answers stored in the session.  The test of line 427
\* ('serving_slider' not in st.session_state) is false in every run, lines
\* 320-321 having set the key, so line 428 never assigns
Stored(ss, llm, sug) ==
  [ss EXCEPT !.original_recipe_data = llm,
             !.original_ingredients = ss.ingredients_input,
             !.original_cuisine = ss.cuisine_select,
             !.similar_recipes = IF sug.ok THEN sug.data ELSE NoSuggestions]

\* lines 445-605 on the session the generation block leaves
Shown(ss) ==
  [session |-> ss,
   ui |-> IF ss.original_recipe_data.present THEN Render(ss) ELSE BlankPage]

\* lines 404-605, ss being the session after lines 336-344 and 405
\* the call of lines 415-420 noted on the page of the run that made it
Asked(ss, run) ==
  [run EXCEPT !.ui.asked = <<[ingredients |-> ss.ingredients_input,
                              cuisine |-> ss.cuisine_select]>>]

RunFrom(ss, trigger_generation, llm, sug) ==
  IF ~trigger_generation THEN Shown(ss)
  ELSE IF ss.ingredients_input = ""
  THEN [session |-> [ss EXCEPT !.original_recipe_data = NoRecipe], ui |-> StoppedPage]
  ELSE IF ~llm.present
  THEN Asked(ss, [session |-> ss, ui |-> StoppedPage])
  ELSE Asked(ss, Shown(Stored(ss, llm, sug)))

\* One run of the script on session state ss.  llm is what
\* generate_recipe_from_llm returns if it is called (NoRecipe for None), sug
\* what generate_similar_recipes returns ([ok |-> FALSE] for None).
ScriptRun(ss, generate_button, llm, sug) ==
  RunFrom([TakeTempQuery(ss) EXCEPT !.trigger_suggestion_generation = FALSE],
          TriggerGeneration(ss, generate_button), llm, sug)

\* the callback of a similar-recipe button, lines 564-567
update_temp_query(ss, new_query, cuisine) ==
  [ss EXCEPT !.temp_query = new_query, !.temp_cuisine = cuisine]

(***************************************************************************)
(* Bounds of the checked instances                                         *)
(***************************************************************************)
\* longest quantity string drawn exhaustively from ParseAlphabet
MaxLen == 4
\* largest whole part of a magnitude handed to the formatter
MaxWhole == 3
\* longest quantity string drawn exhaustively from RoundTripAlphabet
MaxRoundTripLen == 3

\* the slider of lines 492-499
MinServings == 1
MaxServings == 12

ParseAlphabet == {"0", "1", "2", " ", "/", ".", "C"}

\* the quantity strings the specification and the claims name, and a few
\* longer ones of each shape
ExtraQuantities ==
  { <<"1", " ", "1", "/", "2", " ", "c", "u", "p", "s">>,
    <<"5", "0", "0", "g">>,
    <<"a", " ", "p", "i", "n", "c", "h">>,
    <<"2", "/", "3", " ", "c", "u", "p">>,
    <<"1", " ", "1", "/", "0", " ", "c", "u", "p">>,
    <<"1", " ", "/", "2", " ", "c", "u", "p">>,
    <<"2", " ", "3", " ", "c", "u", "p", "s">>,
    <<"1", "\t", "1", "/", "2">>,
    <<"1", "\t", "/", "2">>,
    <<" ", "1", " ", " ", "3", "/", "4", " ", "T", "b", "s", "p", " ">>,
    <<"2", ".", "5", " ", "/", "2">>,
    <<"2", " ", "C", "u", "p", "s", " ", "F", "l", "o", "u", "r">> }

ParseInputs ==
  (UNION { [1..n -> ParseAlphabet] : n \in 0..MaxLen }) \cup ExtraQuantities

\* denominators of the magnitudes handed to the formatter: quarters, thirds,
\* eighths, and 252ths for values a little off a quarter
FormatDenominators == {1, 2, 3, 4, 8, 12, 252}

FormatNumbers ==
  {None} \cup { Some(Rat(n, d)) : n \in 0..(MaxWhole * 252), d \in FormatDenominators }

FormatUnits == { << >>, <<"c", "u", "p">> }

Flour == [item |-> "flour", quantity |-> <<"2", " ", "c", "u", "p", "s", " ", "f", "l", "o", "u", "r">>]
Milk == [item |-> "milk", quantity |-> <<"1", " ", "1", "/", "2", " ", "C", "u", "p", "s">>]
Salt == [item |-> "salt", quantity |-> <<"A", " ", "P", "i", "n", "c", "h">>]
Yeast == [item |-> "yeast", quantity |-> <<"1", "/", "0", " ", "c", "u", "p">>]
Butter == [item |-> "butter", quantity |-> <<" ", "1", "/", "2", " ", " ", "S", "t", "i", "c", "k">>]
Sugar == [item |-> "sugar", quantity |-> <<"1", " ", "/", "2", " ", "c", "u", "p">>]

RoundTripAlphabet == {"1", "2", "/", ".", "c"}

RoundTripInputs ==
  (UNION { [1..n -> RoundTripAlphabet] : n \in 0..MaxRoundTripLen })
    \cup { q.quantity : q \in {Flour, Milk, Butter} }
    \cup { <<".", "5", "/", "2">>,
           <<"1", "/", "2", " ", "1", "/", "2">>,
           <<"1", "/", "1", "2">> }

NewRecipe(sv, ing) ==
  [present |-> TRUE, name |-> "Flatbread", servings |-> sv,
   total_calories_kcal |-> 300, ingredients |-> ing]

Named(recipe, name) == [recipe EXCEPT !.name = name]

\* what the language model may answer in the application's runs; its
\* servings field is any int
Recipes ==
  { NewRecipe(4, <<Flour, Salt>>),
    NewRecipe(4, <<Milk, Yeast, Flour>>),
    NewRecipe(6, <<Salt, Sugar, Butter>>),
    Named(NewRecipe(2, <<Butter>>), "Shortbread"),
    NewRecipe(0, <<Flour>>),
    NewRecipe(0 - 2, <<Flour, Salt>>) }

LlmAnswers == {NoRecipe} \cup Recipes

\* the titles the language model suggests next to the recipe current_name;
\* SimilarRecipes takes any strings, a blank title too
SuggestionsFor(current_name) ==
  IF current_name = "Shortbread"
  THEN [suggestions |-> <<"Scone", "">>, local_names |-> <<"Scone", "">>]
  ELSE [suggestions |-> <<"Naan", "Paratha">>, local_names |-> <<"Nan", "Parantha">>]

\* what generate_similar_recipes(current_name, ...) may return: None, or the
\* suggestions for that recipe
SimilarAnswers(current_name) ==
  { [ok |-> FALSE, data |-> NoSuggestions],
    [ok |-> TRUE, data |-> SuggestionsFor(current_name)] }

IngredientTexts == {"", "eggs, flour"}
Cuisines == {"Indian", "Italian"}

NotCalled == [done |-> FALSE, exc |-> "none", magnitude |-> None, unit |-> << >>]
NoText == [done |-> FALSE, text |-> << >>]
NoServings == [original |-> 0, new |-> 0]

(***************************************************************************)
(* Calls of the two pure functions on drawn arguments                      *)
(***************************************************************************)
AppIdle ==
  /\ session = SessionDefaults
  /\ ui = BlankPage

RoundTripIdle ==
  /\ rt_servings = NoServings
  /\ rt_back = NotCalled

InitParse ==
  /\ pq_arg \in ParseInputs
  /\ pq_res = NotCalled
  /\ fq_number = None
  /\ fq_unit = << >>
  /\ fq_res = NoText
  /\ RoundTripIdle
  /\ AppIdle

\* the record of a finished call
Called(r) == [done |-> TRUE, exc |-> r.exc, magnitude |-> r.magnitude, unit |-> r.unit]

CallParse ==
  /\ ~pq_res.done
  /\ pq_res' = Called(parse_quantity(pq_arg))
  /\ UNCHANGED <<pq_arg, fq_number, fq_unit, fq_res, rt_servings, rt_back, session, ui>>

NextParse == CallParse

SpecParse == InitParse /\ [][NextParse]_vars

InitFormat ==
  /\ pq_arg = << >>
  /\ pq_res = NotCalled
  /\ fq_number \in FormatNumbers
  /\ fq_unit \in FormatUnits
  /\ fq_res = NoText
  /\ RoundTripIdle
  /\ AppIdle

CallFormat ==
  /\ ~fq_res.done
  /\ fq_res' = [done |-> TRUE, text |-> format_scaled_quantity(fq_number, fq_unit)]
  /\ UNCHANGED <<pq_arg, pq_res, fq_number, fq_unit, rt_servings, rt_back, session, ui>>

NextFormat == CallFormat

SpecFormat == InitFormat /\ [][NextFormat]_vars

(***************************************************************************)
(* Scale, display, read the display back, scale by the inverse factor      *)
(***************************************************************************)
InitRoundTrip ==
  /\ pq_arg \in RoundTripInputs
  /\ pq_res = NotCalled
  /\ fq_number = None
  /\ fq_unit = << >>
  /\ fq_res = NoText
  /\ RoundTripIdle
  /\ AppIdle

\* lines 530-531 on the parsed quantity, at servings within the slider's range
ScaleAndFormat ==
  /\ pq_res.done
  /\ pq_res.exc = "none"
  /\ pq_res.magnitude.some
  /\ ~fq_res.done
  /\ \E original_servings \in MinServings..MaxServings,
        new_servings \in MinServings..MaxServings :
       /\ rt_servings' = [original |-> original_servings, new |-> new_servings]
       /\ fq_number' = Some(RatMul(ValueOf(pq_res.magnitude),
                                   ScalingFactor(new_servings, original_servings)))
       /\ fq_unit' = pq_res.unit
       /\ fq_res' = [done |-> TRUE, text |-> format_scaled_quantity(fq_number', fq_unit')]
  /\ UNCHANGED <<pq_arg, pq_res, rt_back, session, ui>>

\* the magnitude of a parsed quantity multiplied by scaling_factor
Scaled(r, scaling_factor) ==
  IF r.exc = "none" /\ r.magnitude.some
  THEN [r EXCEPT !.magnitude = Some(RatMul(ValueOf(r.magnitude), scaling_factor))]
  ELSE r

\* parse_quantity on the displayed text, the magnitude scaled by 1/f
ReadBack ==
  /\ fq_res.done
  /\ rt_servings # NoServings
  /\ ~rt_back.done
  /\ rt_back' = Called(Scaled(parse_quantity(fq_res.text),
                              ScalingFactor(rt_servings.original, rt_servings.new)))
  /\ UNCHANGED <<pq_arg, pq_res, fq_number, fq_unit, fq_res, rt_servings, session, ui>>

NextRoundTrip ==
  \/ CallParse
  \/ ScaleAndFormat
  \/ ReadBack

SpecRoundTrip == InitRoundTrip /\ [][NextRoundTrip]_vars

(***************************************************************************)
(* The application: every action is a user event and the run it causes     *)
(***************************************************************************)
Init ==
  /\ pq_arg = << >>
  /\ pq_res = NotCalled
  /\ fq_number = None
  /\ fq_unit = << >>
  /\ fq_res = NoText
  /\ RoundTripIdle
  /\ session = SessionDefaults
  /\ ui = BlankPage

\* the answers a run can get: none is asked for unless generation is triggered
AnswersFor(ss, generate_button) ==
  IF TriggerGeneration(ss, generate_button) /\ TakeTempQuery(ss).ingredients_input # ""
  THEN UNION { { <<llm, sug>> : sug \in SimilarAnswers(llm.name) } : llm \in LlmAnswers }
  ELSE {<<NoRecipe, [ok |-> FALSE, data |-> NoSuggestions]>>}

\* the session and the page a run leaves
Leaves(run, event) ==
  /\ session' = run.session
  /\ ui' = [run.ui EXCEPT !.event = event]
  /\ UNCHANGED fnVars

\* the run that the use of a widget causes
Rerun(ss, generate_button, event) ==
  \E answer \in AnswersFor(ss, generate_button) :
    Leaves(ScriptRun(ss, generate_button, answer[1], answer[2]), event)

\* the "Ask Sous Chef AI" button, line 398
ClickGenerate ==
  \E generate_button \in {TRUE} : Rerun(session, generate_button, "generate_button")

\* the serving slider, lines 492-499
MoveSlider ==
  /\ ui.slider_shown
  /\ \E n \in MinServings..MaxServings :
       /\ n # session.serving_slider
       /\ Rerun([session EXCEPT !.serving_slider = n], FALSE, "serving_slider")

\* the ingredients text area, lines 352-357
EditIngredients ==
  \E text \in IngredientTexts :
    /\ text # session.ingredients_input
    /\ Rerun([session EXCEPT !.ingredients_input = text], FALSE, "ingredients_input")

\* the cuisine select box, line 387
SelectCuisine ==
  \E c \in Cuisines :
    /\ c # session.cuisine_select
    /\ Rerun([session EXCEPT !.cuisine_select = c], FALSE, "cuisine_select")

\* a similar-recipe button, lines 577-582
ClickSuggestion ==
  \E i \in 1..Len(ui.buttons) :
    Rerun(update_temp_query(session, ui.buttons[i], ui.button_cuisine), FALSE, "sug_btn")

Next ==
  \/ ClickGenerate
  \/ MoveSlider
  \/ EditIngredients
  \/ SelectCuisine
  \/ ClickSuggestion

Spec == Init /\ [][Next]_vars

(***************************************************************************)
(* Claims about parse_quantity (checked under SpecParse)                   *)
(***************************************************************************)
Normalized(raw) == Lower(Strip(raw))

\* The numeric prefix of the trimmed, lowercased input is a simple fraction
\* n/0 or a mixed number w n/0
ZeroDenominatorPrefix(raw) ==
  LET s == Normalized(raw)
      a == DigitRun(s, 1)
      b == SpaceRun(s, a + 1)
      c == DigitRun(s, a + b + 1)
      p == IF b = 0 THEN a + 1 ELSE a + b + c + 1
      d == DigitRun(s, p + 1)
  IN /\ a >= 1
     /\ b = 0 \/ c >= 1
     /\ p <= Len(s)
     /\ s[p] = "/"
     /\ d >= 1
     /\ DigitsVal(SubSeq(s, p + 1, p + d)) = 0

\* C1: parse_quantity never raises on a quantity whose fraction has a zero
\* denominator; it returns magnitude None and, as unit, the whole trimmed,
\* lowercased input.
C1_ZeroDenominatorIsNone ==
  (pq_res.done /\ ZeroDenominatorPrefix(pq_arg))
    => /\ pq_res.exc = "none"
       /\ ~pq_res.magnitude.some
       /\ pq_res.unit = Normalized(pq_arg)

\* The magnitude the stated grammar gives: mixed number, decimal, simple
\* fraction, plain integer, tried in this order at the start of the string
GrammarMagnitude(raw) ==
  LET s == Normalized(raw)
      a == DigitRun(s, 1)
      b == SpaceRun(s, a + 1)
      c == DigitRun(s, a + b + 1)
      pm == a + b + c + 1
      dm == DigitRun(s, pm + 1)
      d1 == DigitRun(s, a + 2)
      whole == DigitsVal(SubSeq(s, 1, a))
  IN IF a >= 1 /\ b >= 1 /\ c >= 1 /\ pm <= Len(s) /\ s[pm] = "/" /\ dm >= 1
     THEN Some(RatAdd(Rat(whole, 1),
                      Rat(DigitsVal(SubSeq(s, a + b + 1, a + b + c)),
                          DigitsVal(SubSeq(s, pm + 1, pm + dm)))))
     ELSE IF a + 1 <= Len(s) /\ s[a + 1] = "." /\ d1 >= 1
     THEN Some(RatAdd(Rat(whole, 1),
                      Rat(DigitsVal(SubSeq(s, a + 2, a + 1 + d1)), Pow10(d1))))
     ELSE IF a >= 1 /\ a + 1 <= Len(s) /\ s[a + 1] = "/" /\ d1 >= 1
     THEN Some(Rat(whole, DigitsVal(SubSeq(s, a + 2, a + 1 + d1))))
     ELSE IF a >= 1 THEN Some(Rat(whole, 1))
     ELSE None

\* C5: parse_quantity returns the magnitude of the first form, in the order
\* mixed number, decimal, simple fraction, plain integer, that the start of
\* the trimmed, lowercased input has; an input that has none of the first
\* three forms but starts with digits is a plain integer.  (Zero denominators
\* are C1's case and left out here.)
C5_MagnitudeByGrammar ==
  (pq_res.done /\ ~ZeroDenominatorPrefix(pq_arg))
    => /\ pq_res.exc = "none"
       /\ pq_res.magnitude = GrammarMagnitude(pq_arg)

\* C6: every result of parse_quantity has, when the magnitude is present, the
\* unit equal to the rest of the trimmed, lowercased input after the matched
\* prefix, without surrounding whitespace, and, when the magnitude is None,
\* the unit equal to the whole trimmed, lowercased input.
C6_ParsedQuantityInvariant ==
  (pq_res.done /\ pq_res.exc = "none")
    => LET s == Normalized(pq_arg)
       IN IF pq_res.magnitude.some
          THEN /\ ReMatch(s) >= 1
               /\ pq_res.unit = Strip(Rest(s, ReMatch(s) + 1))
               /\ pq_res.unit = Strip(pq_res.unit)
          ELSE pq_res.unit = s

\* a parsed quantity with a unit, from an input that needed trimming or
\* lowercasing and had blanks between number and unit
C6_Witness ==
  /\ pq_res.done
  /\ pq_res.exc = "none"
  /\ pq_res.magnitude.some
  /\ pq_res.unit # << >>
  /\ pq_arg # Normalized(pq_arg)
  /\ IsSpace(Normalized(pq_arg)[ReMatch(Normalized(pq_arg)) + 1])

(***************************************************************************)
(* Claims about format_scaled_quantity (checked under SpecFormat)          *)
(***************************************************************************)
FracPart(x) == RatSub(x, Rat(Trunc(x), 1))

NearZero(x) == RatLess(RatAbs(FracPart(x)), Rat(1, 100))

\* C3: a magnitude whose fractional part is within 0.01 of 0 is rendered as
\* its integer part alone ("0" when that is 0), one space and the unit.
C3_NearWholeIsInteger ==
  (fq_res.done /\ fq_number.some /\ NearZero(ValueOf(fq_number)))
    => fq_res.text = Strip(IntStr(Trunc(ValueOf(fq_number))) \o <<" ">> \o fq_unit)

\* text is digits, a point and exactly two digits, and is x to the nearest 0.01
TwoPlacesOf(text, x) ==
  LET n == Len(text)
  IN /\ n >= 4
     /\ text[n - 2] = "."
     /\ AllDigits(SubSeq(text, 1, n - 3))
     /\ AllDigits(SubSeq(text, n - 1, n))
     /\ LET v == Rat(DigitsVal(SubSeq(text, 1, n - 3)) * 100 + DigitsVal(SubSeq(text, n - 1, n)), 100)
        IN ~RatLess(Rat(1, 200), RatAbs(RatSub(v, x)))

\* "<whole> <quarter>", the whole part and its space left out when it is 0
QuarterText(whole, quarter) ==
  IF whole = 0 THEN quarter ELSE IntStr(whole) \o <<" ">> \o quarter

\* C4: a non-negative magnitude whose fractional part is not within 0.01 of 0
\* is rendered as "<whole> 1/4", "<whole> 1/2" or "<whole> 3/4" when the
\* fraction is within 0.01 of 0.25, 0.5 or 0.75 (without the whole part when
\* it is 0) and with exactly two decimal places otherwise; the result is that
\* number, one space and the unit, trimmed.
C4_QuartersOrTwoDecimals ==
  (fq_res.done /\ fq_number.some /\ fq_number.num >= 0 /\ ~NearZero(ValueOf(fq_number)))
    => LET x == ValueOf(fq_number)
           whole == Trunc(x)
           frac == FracPart(x)
           tail == IF Strip(fq_unit) = << >> THEN << >> ELSE <<" ">> \o Strip(fq_unit)
           n == Len(fq_res.text) - Len(tail)
           numtext == SubSeq(fq_res.text, 1, n)
       IN /\ n >= 1
          /\ fq_res.text = numtext \o tail
          /\ IF RatLess(RatAbs(RatSub(frac, Rat(1, 4))), Rat(1, 100))
             THEN numtext = QuarterText(whole, <<"1", "/", "4">>)
             ELSE IF RatLess(RatAbs(RatSub(frac, Rat(1, 2))), Rat(1, 100))
             THEN numtext = QuarterText(whole, <<"1", "/", "2">>)
             ELSE IF RatLess(RatAbs(RatSub(frac, Rat(3, 4))), Rat(1, 100))
             THEN numtext = QuarterText(whole, <<"3", "/", "4">>)
             ELSE TwoPlacesOf(numtext, x)

\* a magnitude a little above one half, below one whole unit, rendered as
\* "1/2 cup" with no leading space
C4_Witness ==
  /\ fq_res.done
  /\ fq_number = Some(Rat(127, 252))
  /\ fq_res.text = <<"1", "/", "2", " ", "c", "u", "p">>

(***************************************************************************)
(* Claims about the scaling loop                                           *)
(***************************************************************************)
StoredRecipe == session.original_recipe_data

\* C2: when the recipe's original servings (or the requested servings) is
\* zero or negative, the scaling step rejects the request with an
\* InvalidArgument failure; it never divides by zero and never displays a
\* quantity scaled by a negative factor.  (Checked under Spec.)
C2_RejectsNonPositiveServings ==
  (ui.recipe_shown /\ (StoredRecipe.servings <= 0 \/ session.serving_slider <= 0))
    => /\ ui.exc = "InvalidArgument"
       /\ ui.lines = << >>

\* the quantity string of the i-th ingredient of the stored recipe
QuantityOf(i) == StoredRecipe.ingredients[i].quantity

\* the i-th ingredient has its line on the page, and the line shows text
Displayed(i, text) == i <= Len(ui.lines) /\ ui.lines[i].text = text

\* C7: for every ingredient, when the scale factor is 1 or the quantity does
\* not parse (magnitude None), the displayed quantity is the original string,
\* character for character, at every serving count.
\* (Checked under Spec, at positive servings.)
C7_Passthrough ==
  (ui.recipe_shown /\ StoredRecipe.servings > 0)
    => \A i \in 1..Len(StoredRecipe.ingredients) :
         (\/ session.serving_slider = StoredRecipe.servings
          \/ /\ parse_quantity(QuantityOf(i)).exc = "none"
             /\ ~parse_quantity(QuantityOf(i)).magnitude.some)
           => Displayed(i, QuantityOf(i))

\* C8: the loop yields one display line per ingredient, in input order, and a
\* quantity that is unparseable or malformed never stops the ingredients
\* after it from being rendered.  (Checked under Spec, at positive servings.)
C8_OneLinePerIngredient ==
  (ui.recipe_shown /\ StoredRecipe.servings > 0)
    => /\ ui.exc = "none"
       /\ Len(ui.lines) = Len(StoredRecipe.ingredients)
       /\ \A i \in 1..Len(ui.lines) : ui.lines[i].item = StoredRecipe.ingredients[i].item

\* C9: for every ingredient whose quantity parses to a magnitude, when new
\* servings differs from original servings the displayed quantity is
\* format_scaled_quantity(magnitude * new / original, unit) with the parser's
\* lowercased unit; "2 cups flour" of a recipe for 4 is shown as
\* "4 cups flour" at 8.  (Checked under Spec, at positive servings.)
C9_ScaledDisplay ==
  (ui.recipe_shown /\ StoredRecipe.servings > 0)
    => \A i \in 1..Len(StoredRecipe.ingredients) :
         LET p == parse_quantity(QuantityOf(i))
             new == session.serving_slider
             orig == StoredRecipe.servings
         IN (p.exc = "none" /\ p.magnitude.some /\ new # orig)
              => /\ Displayed(i, format_scaled_quantity(
                                   Some(Rat(p.magnitude.num * new, p.magnitude.den * orig)),
                                   p.unit))
                 /\ p.unit = Lower(p.unit)
                 /\ (QuantityOf(i) = Flour.quantity /\ orig = 4 /\ new = 8)
                      => Displayed(i, <<"4", " ", "c", "u", "p", "s", " ", "f", "l", "o", "u", "r">>)

(***************************************************************************)
(* Claims about the session across runs (checked under Spec)               *)
(***************************************************************************)
\* what the stored quantity string q shows at new servings of a recipe for
\* orig, worked out from q alone
TextFromOriginal(q, new, orig) ==
  LET p == parse_quantity(q)
  IN IF p.magnitude.some /\ new # orig
     THEN format_scaled_quantity(Some(Rat(p.magnitude.num * new, p.magnitude.den * orig)),
                                 p.unit)
     ELSE q

\* the run ends before the ingredient list is written: the factor cannot be
\* formed or a stored quantity makes parse_quantity raise
NoListWritten ==
  \/ StoredRecipe.servings = 0
  \/ \E i \in 1..Len(StoredRecipe.ingredients) : parse_quantity(QuantityOf(i)).exc # "none"

\* C11: after any sequence of serving-slider changes (and any other runs) on a
\* stored recipe, what is displayed for each ingredient is a function of the
\* stored original quantity string and the current serving counts alone: it
\* is recomputed from the original recipe data, so a repeated serving count
\* shows the same text and nothing accumulates.
C11_DisplayFromOriginal ==
  ui.recipe_shown
    => IF NoListWritten THEN ui.lines = << >>
       ELSE /\ Len(ui.lines) = Len(StoredRecipe.ingredients)
            /\ \A i \in 1..Len(ui.lines) :
                 ui.lines[i].text = TextFromOriginal(QuantityOf(i), session.serving_slider,
                                                     StoredRecipe.servings)

\* the recipe for 4 after the slider was moved to 8, in a run that generated
\* nothing: "2 cups flour" shown as "4 cups flour", "A Pinch" as it is
C11_Witness ==
  /\ StoredRecipe.servings = 4
  /\ session.serving_slider = 8
  /\ ui.asked = << >>
  /\ Len(ui.lines) = 2
  /\ ui.lines[1].text = <<"4", " ", "c", "u", "p", "s", " ", "f", "l", "o", "u", "r">>
  /\ ui.lines[2].text = Salt.quantity

\* no generation has succeeded yet in the session: nothing was stored, no
\* recipe was shown, and so the slider was never on a page
NothingGeneratedYet == session.original_ingredients = Absent

\* C12: the run of the first successful generation of a session (slider
\* untouched) scales by the generated recipe's own servings: the serving
\* count equals the recipe's servings (taken within the slider's range), the
\* factor is 1 and every ingredient is displayed with its original string.
C12_FirstDisplayAtOwnServings ==
  [][(/\ NothingGeneratedYet
      /\ session'.original_recipe_data.present
      /\ session'.original_recipe_data.servings \in MinServings..MaxServings)
       => /\ session'.serving_slider = session'.original_recipe_data.servings
          /\ \A i \in 1..Len(session'.original_recipe_data.ingredients) :
               /\ i <= Len(ui'.lines)
               /\ ui'.lines[i].text = session'.original_recipe_data.ingredients[i].quantity]_vars

\* nothing is pending at the end of a run
NothingPending ==
  /\ session.temp_query = NoneStr
  /\ session.temp_cuisine = NoneStr
  /\ ~session.trigger_suggestion_generation

\* the run made exactly one call of generate_recipe_from_llm, for these
\* ingredients and this cuisine
AskedOnceFor(page, ingredients, cuisine) ==
  page.asked = <<[ingredients |-> ingredients, cuisine |-> cuisine]>>

\* no run generates anything unless a suggestion or the generate button was
\* clicked
NoGenerationUnasked ==
  [][ui'.event \notin {"sug_btn", "generate_button"} => ui'.asked = << >>]_vars

\* C13: the run that follows a click on a similar-recipe suggestion makes
\* exactly one recipe generation, whose ingredients input is the clicked
\* title and whose cuisine is the cuisine of the recipe that was shown; at the
\* end of every run temp_query and temp_cuisine are None and
\* trigger_suggestion_generation is False, so the runs of a slider change (or
\* of an edit of the ingredients or the cuisine) generate nothing.
C13_SuggestionClick ==
  /\ []NothingPending
  /\ [][ui'.event = "sug_btn"
          => \E i \in 1..Len(ui.buttons) :
               /\ session'.ingredients_input = ui.buttons[i]
               /\ AskedOnceFor(ui', ui.buttons[i], session.original_cuisine)]_vars
  /\ NoGenerationUnasked

\* C13 as the code has it: the click on a suggestion with a non-empty title
\* causes exactly one generation, for that title and the cuisine of the
\* recipe that was shown; the click on a suggestion with an empty title
\* causes none, and the run ends at line 413 with the stored recipe None.
\* The rest is as C13 says.
C13_TitledSuggestionClick ==
  /\ []NothingPending
  /\ [][ui'.event = "sug_btn"
          => \E i \in 1..Len(ui.buttons) :
               /\ session'.ingredients_input = ui.buttons[i]
               /\ IF ui.buttons[i] # ""
                  THEN AskedOnceFor(ui', ui.buttons[i], session.original_cuisine)
                  ELSE /\ ui'.asked = << >>
                       /\ ui'.stopped
                       /\ session'.original_recipe_data = NoRecipe]_vars
  /\ NoGenerationUnasked

\* the page after a click on "Naan" under a recipe generated for the Italian
\* cuisine: one generation for "Naan" and "Italian", its recipe stored
C13_Witness ==
  /\ ui.event = "sug_btn"
  /\ AskedOnceFor(ui, "Naan", "Italian")
  /\ ui.recipe_shown
  /\ session.ingredients_input = "Naan"
  /\ session.original_ingredients = "Naan"
  /\ NothingPending

\* the run was one in which generation is triggered (line 404)
Triggered(page) == page.event \in {"generate_button", "sug_btn"}

\* what the session keeps of the last successful generation
Kept(ss) ==
  <<ss.original_recipe_data, ss.original_ingredients, ss.original_cuisine,
    ss.similar_recipes>>

\* C14: the stored recipe changes only in a run in which generation is
\* triggered: such a run stores a recipe of the language model when the call
\* succeeds, None when the ingredients input is empty, and leaves the recipe,
\* original_ingredients, original_cuisine and similar_recipes as they were
\* when the call fails; the run of a slider change (of any other widget)
\* leaves them as they were.  On every page that shows a recipe the stored
\* similar_recipes are empty or the suggestions generated for that recipe.
C14_RecipeChangesOnlyOnGeneration ==
  /\ [](ui.recipe_shown
         => \/ session.similar_recipes = NoSuggestions
            \/ session.similar_recipes = SuggestionsFor(StoredRecipe.name))
  /\ [][~Triggered(ui') => Kept(session') = Kept(session)]_vars
  /\ [][(Triggered(ui') /\ session'.ingredients_input = "")
          => /\ ui'.asked = << >>
             /\ session'.original_recipe_data = NoRecipe]_vars
  /\ [][(Triggered(ui') /\ session'.ingredients_input # "")
          => /\ Len(ui'.asked) = 1
             /\ IF ui'.stopped
                THEN Kept(session') = Kept(session)
                ELSE /\ session'.original_recipe_data \in Recipes
                     /\ session'.original_ingredients = session'.ingredients_input
                     /\ session'.original_cuisine = session'.cuisine_select
                     /\ ui'.recipe_shown]_vars

\* the page after a click on "Naan" under a Flatbread: the Shortbread the
\* language model answered is stored and shown with its own suggestions
C14_Witness ==
  /\ ui.event = "sug_btn"
  /\ Len(ui.asked) = 1
  /\ session.ingredients_input = "Naan"
  /\ ui.recipe_shown
  /\ StoredRecipe.name = "Shortbread"
  /\ session.similar_recipes = SuggestionsFor("Shortbread")
  /\ Len(ui.buttons) = 2

(***************************************************************************)
(* Claims about scaling under inverse factors (checked under SpecRoundTrip)*)
(***************************************************************************)
\* |a - b| <= t
Within(a, b, t) == ~RatLess(t, RatAbs(RatSub(a, b)))

\* C10 as stated: scaling by f, rendering, reading the rendering back and
\* scaling by 1/f returns a magnitude within 0.01 of the original.
C10_InverseWithinTolerance ==
  rt_back.done
    => /\ rt_back.exc = "none"
       /\ rt_back.magnitude.some
       /\ Within(ValueOf(rt_back.magnitude), ValueOf(pq_res.magnitude), Rat(1, 100))

\* the unit begins with digits (possibly none), "/" and a digit: text that
\* reads as part of the number when it follows a whole number
UnitStartsWithFraction(unit) ==
  LET c == DigitRun(unit, 1)
  IN c + 1 <= Len(unit) /\ unit[c + 1] = "/" /\ DigitRun(unit, c + 2) >= 1

\* C10 (amended): for a quantity whose unit does not begin with a fraction,
\* the round trip returns a magnitude within 0.01 * original / new of the
\* original magnitude: the displayed value is within 0.01 of the scaled one,
\* and scaling back divides that error by f.
C10_InverseWithinScaledTolerance ==
  (rt_back.done /\ ~UnitStartsWithFraction(pq_res.unit))
    => /\ rt_back.exc = "none"
       /\ rt_back.magnitude.some
       /\ Within(ValueOf(rt_back.magnitude), ValueOf(pq_res.magnitude),
                 Rat(rt_servings.original, 100 * rt_servings.new))

\* a round trip through a two-decimal rendering that comes back off by more
\* than 0.01 (1 at 1/12 is shown as "0.08" and read back as 0.96)
C10_Witness ==
  /\ rt_back.done
  /\ ~UnitStartsWithFraction(pq_res.unit)
  /\ rt_back.exc = "none"
  /\ rt_back.magnitude.some
  /\ rt_servings.new < rt_servings.original
  /\ ~Within(ValueOf(rt_back.magnitude), ValueOf(pq_res.magnitude), Rat(1, 100))

====
